---- MODULE Spec2Model ----
(***************************************************************************)
(* Model of src/script.js: the calorie / macro tracking widget.            *)
(*                                                                         *)
(* State: the two localStorage items and the DOM elements script.js        *)
(* writes.  One action per handler (initializeApp, handleCalorieGoal,      *)
(* handleFoodLog, handleDeleteFood, handleResetDay); each handler runs to  *)
(* completion, as the browser's event loop guarantees, unless             *)
(* localStorage.setItem throws: those runs are the ...SetItemThrows        *)
(* actions of SpecQuota.                                                   *)
(*                                                                         *)
(* Text (form values, attribute values, element text, stored JSON) is a    *)
(* sequence of one-character strings.  A JavaScript number is Num(n) for   *)
(* an integer n, NaN or Infinity; Null is JavaScript's null.  The only     *)
(* non-integer numbers of the program, the weekly loss rate and the        *)
(* quotient it divides, are modelled as IEEE-754 doubles.                  *)
(***************************************************************************)
EXTENDS Integers, Sequences, FiniteSets, TLC

VARIABLES
    localStorage,          \* [GOAL_KEY, FOOD_LOG_KEY] -> stored text, or NoItem
    dailyGoalSpan,         \* textContent of #daily-goal
    consumedCaloriesSpan,  \* textContent of #consumed-calories
    remainingCaloriesSpan, \* textContent of #remaining-calories
    timelineOutput,        \* content of #timeline-output
    targetProteinSpan,     \* textContent of #target-protein
    targetCarbsSpan,       \* textContent of #target-carbs
    targetFatSpan,         \* textContent of #target-fat
    foodLogList,           \* rows of #food-log
    dialog,                \* the alert shown by the last handler, if any
    ev                     \* the event the last handler was dispatched with

vars == <<localStorage, dailyGoalSpan, consumedCaloriesSpan, remainingCaloriesSpan,
          timelineOutput, targetProteinSpan, targetCarbsSpan, targetFatSpan,
          foodLogList, dialog, ev>>

display == <<dailyGoalSpan, consumedCaloriesSpan, remainingCaloriesSpan,
             timelineOutput, targetProteinSpan, targetCarbsSpan, targetFatSpan,
             foodLogList>>

----------------------------------------------------------------------------
(* Bounds *)

\* longest food log the model builds
MaxLog == 3

\* longest training time, in minutes, of the forms of MacroForms
MaxTrainingTime == 143

----------------------------------------------------------------------------
(* Program constants *)

GOAL_KEY == "dailyCalorieGoal"
FOOD_LOG_KEY == "foodLog"

CALORIES_PER_KG_FAT == 7700

CAL_PER_GRAM_PROTEIN == 4
CAL_PER_GRAM_CARBS == 4
CAL_PER_GRAM_FAT == 9

----------------------------------------------------------------------------
(* JavaScript values *)

NaN == [t |-> "NaN"]
Infinity == [t |-> "Infinity"]
Null == [t |-> "null"]
Num(n) == [t |-> "num", val |-> n]

IsNum(v) == v.t = "num"

\* ToNumber: null converts to +0
ToNumber(v) == IF v = Null THEN Num(0) ELSE v

JsAdd(a, b) ==
    LET x == ToNumber(a)
        y == ToNumber(b)
    IN  IF IsNum(x) /\ IsNum(y) THEN Num(x.val + y.val) ELSE NaN

JsSub(a, b) ==
    LET x == ToNumber(a)
        y == ToNumber(b)
    IN  IF IsNum(x) /\ IsNum(y) THEN Num(x.val - y.val) ELSE NaN

\* variant of JsGtZero: zero passes the test
JsGeqZero(a) == IsNum(ToNumber(a)) /\ ToNumber(a).val >= 0

\* a > 0 and a <= 0; any comparison with NaN is false
JsGtZero(a) == IsNum(ToNumber(a)) /\ ToNumber(a).val > 0

JsLeqZero(a) == IsNum(ToNumber(a)) /\ ToNumber(a).val <= 0

----------------------------------------------------------------------------
(* Text *)

DigitChars == <<"0", "1", "2", "3", "4", "5", "6", "7", "8", "9">>

IsDigit(c) == \E d \in 1..10 : DigitChars[d] = c

DigitVal(c) == (CHOOSE d \in 1..10 : DigitChars[d] = c) - 1

IsSpace(c) == c = " "

RECURSIVE TrimStart(_)
TrimStart(s) ==
    IF Len(s) > 0 /\ IsSpace(Head(s)) THEN TrimStart(Tail(s)) ELSE s

RECURSIVE TrimEnd(_)
TrimEnd(s) ==
    IF Len(s) > 0 /\ IsSpace(s[Len(s)]) THEN TrimEnd(SubSeq(s, 1, Len(s) - 1)) ELSE s

\* variant of trim: the text is taken as typed
trimNone(s) == s

\* String.prototype.trim
trim(s) == TrimEnd(TrimStart(s))

\* value of the longest prefix of decimal digits of s, continuing from acc
RECURSIVE DigitsValue(_, _)
DigitsValue(s, acc) ==
    IF Len(s) > 0 /\ IsDigit(Head(s))
    THEN DigitsValue(Tail(s), acc * 10 + DigitVal(Head(s)))
    ELSE acc

\* parseInt(text), radix 10: leading white space is skipped, an optional sign
\* is read, then the longest prefix of digits; no digit at all gives NaN and
\* anything after the digits (a fraction, letters) is ignored.
parseInt(text) ==
    LET s == TrimStart(text)
        signed == Len(s) > 0 /\ Head(s) \in {"-", "+"}
        neg == Len(s) > 0 /\ Head(s) = "-"
        body == IF signed THEN Tail(s) ELSE s
    IN  IF Len(body) = 0 \/ ~IsDigit(Head(body))
        THEN NaN
        ELSE Num(IF neg THEN 0 - DigitsValue(body, 0) ELSE DigitsValue(body, 0))

RECURSIVE NatText(_)
NatText(n) ==
    IF n < 10 THEN <<DigitChars[n + 1]>>
    ELSE NatText(n \div 10) \o <<DigitChars[(n % 10) + 1]>>

\* String(v), as used when a value is assigned to textContent or
\* interpolated into markup; textContent = null gives the empty text.
ToText(v) ==
    IF v = NaN THEN <<"N", "a", "N">>
    ELSE IF v = Infinity THEN <<"I", "n", "f", "i", "n", "i", "t", "y">>
    ELSE IF v = Null THEN <<>>
    ELSE IF v.val < 0 THEN <<"-">> \o NatText(0 - v.val)
    ELSE NatText(v.val)

----------------------------------------------------------------------------
(* IEEE-754 binary64 arithmetic, as far as parseFloat, / and Math.ceil use it *)

\* A positive double is m * 2^e with 2^52 <= m < 2^53.  The 53-bit m is
\* wider than a 32-bit integer, so it is held as two limbs, hi * Limb + lo.
Limb == 128 * 1024 * 1024

Big(n) == [hi |-> n \div Limb, lo |-> n % Limb]

BigZero == [hi |-> 0, lo |-> 0]

\* 2^52 and 2^53
TwoTo52 == [hi |-> 33554432, lo |-> 0]
TwoTo53 == [hi |-> 67108864, lo |-> 0]

BigGeq(x, y) == x.hi > y.hi \/ (x.hi = y.hi /\ x.lo >= y.lo)

BigDouble(x) == [hi |-> 2 * x.hi + (2 * x.lo) \div Limb, lo |-> (2 * x.lo) % Limb]

BigHalve(x) == [hi |-> x.hi \div 2, lo |-> x.lo \div 2 + (x.hi % 2) * (Limb \div 2)]

BigInc(x) == IF x.lo + 1 = Limb THEN [hi |-> x.hi + 1, lo |-> 0] ELSE [hi |-> x.hi, lo |-> x.lo + 1]

\* x - y, for x >= y
BigSub(x, y) ==
    IF x.lo >= y.lo THEN [hi |-> x.hi - y.hi, lo |-> x.lo - y.lo]
    ELSE [hi |-> x.hi - y.hi - 1, lo |-> x.lo + Limb - y.lo]

BigOdd(x) == x.lo % 2 = 1

\* long division a / b for 0 <= a < b, one quotient bit per step, most
\* significant first: st.q is the quotient so far, st.e the weight of its
\* last bit and st.a the running remainder.  The division stops when the
\* quotient has 53 bits.
QuotientDone(st) == BigGeq(st.q, TwoTo52)

QuotientStep(st, b) ==
    IF QuotientDone(st) THEN st
    ELSE LET a2 == BigDouble(st.a)
         IN  IF BigGeq(a2, b)
             THEN [a |-> BigSub(a2, b), q |-> BigInc(BigDouble(st.q)), e |-> st.e - 1]
             ELSE [a |-> a2, q |-> BigDouble(st.q), e |-> st.e - 1]

QuotientStep4(st, b) == QuotientStep(QuotientStep(QuotientStep(QuotientStep(st, b), b), b), b)

RECURSIVE QuotientRun(_, _)
QuotientRun(st, b) ==
    IF QuotientDone(st) THEN st
    ELSE QuotientRun(QuotientStep4(QuotientStep4(st, b), b), b)

QuotientBits(a, b, e) ==
    LET st == QuotientRun([a |-> a, q |-> BigZero, e |-> e], b)
    IN  [m |-> st.q, e |-> st.e, rem |-> st.a]

\* round to nearest, ties to even: the discarded part is rem / b of one unit
RoundNearestEven(r, b) ==
    LET twice == BigDouble(r.rem)
        up == IF twice = b THEN BigOdd(r.m) ELSE BigGeq(twice, b)
        m == IF up THEN BigInc(r.m) ELSE r.m
    IN  IF m = TwoTo53 THEN [m |-> TwoTo52, e |-> r.e + 1] ELSE [m |-> m, e |-> r.e]

\* scale b by powers of two until a < b
RECURSIVE ScaleAbove(_, _, _)
ScaleAbove(a, b, e) ==
    IF BigGeq(a, b) THEN ScaleAbove(a, BigDouble(b), e + 1) ELSE [b |-> b, e |-> e]

\* the double nearest to a / b, for a > 0 and b > 0
DivRound(a, b) ==
    LET s == ScaleAbove(a, b, 0)
    IN  RoundNearestEven(QuotientBits(a, s.b, s.e), s.b)

\* m shifted right by k bits, with whether a non-zero bit was shifted out
RECURSIVE ShiftRight(_, _, _)
ShiftRight(m, k, lost) ==
    IF k = 0 \/ m = BigZero THEN [m |-> m, lost |-> lost]
    ELSE ShiftRight(BigHalve(m), k - 1, lost \/ BigOdd(m))

BigToInt(x) == x.hi * Limb + x.lo

\* Math.ceil / Math.floor of the positive double m * 2^e, e < 0
FloatFloor(x) == BigToInt(ShiftRight(x.m, 0 - x.e, FALSE).m)

FloatCeil(x) ==
    LET s == ShiftRight(x.m, 0 - x.e, FALSE)
    IN  BigToInt(s.m) + (IF s.lost THEN 1 ELSE 0)

\* number of digits at the front of s
RECURSIVE DigitCount(_)
DigitCount(s) == IF Len(s) > 0 /\ IsDigit(Head(s)) THEN 1 + DigitCount(Tail(s)) ELSE 0

RECURSIVE PowerOfTen(_)
PowerOfTen(k) == IF k = 0 THEN 1 ELSE 10 * PowerOfTen(k - 1)

\* parseFloat(text): sign, digits, optional fraction; the decimal read is
\* num / den with sign neg, or NaN when no digit is found.
parseFloat(text) ==
    LET s == TrimStart(text)
        signed == Len(s) > 0 /\ Head(s) \in {"-", "+"}
        neg == Len(s) > 0 /\ Head(s) = "-"
        body == IF signed THEN Tail(s) ELSE s
        intLen == DigitCount(body)
        rest == SubSeq(body, intLen + 1, Len(body))
        hasPoint == Len(rest) > 0 /\ Head(rest) = "."
        frac == IF hasPoint THEN Tail(rest) ELSE <<>>
        fracLen == DigitCount(frac)
        num == DigitsValue(frac, DigitsValue(body, 0))
    IN  IF intLen + fracLen = 0 THEN NaN
        ELSE [t |-> "decimal", neg |-> neg, num |-> num, den |-> PowerOfTen(fracLen)]

\* Math.ceil(weightDifference / weeklyLossRate) for an integer
\* weightDifference > 0: the divisor is first rounded to a double, the
\* quotient is rounded to a double, and the ceiling is taken of that.
ceilOfQuotient(weightDifference, weeklyLossRate) ==
    IF weeklyLossRate = NaN THEN NaN
    ELSE IF weeklyLossRate.num = 0 THEN Infinity
    ELSE LET rate == DivRound(Big(weeklyLossRate.num), Big(weeklyLossRate.den))
             quot == DivRound(Big(weightDifference), rate.m)
             q == [m |-> quot.m, e |-> quot.e - rate.e]
         IN  IF weeklyLossRate.neg THEN Num(0 - FloatFloor(q)) ELSE Num(FloatCeil(q))

----------------------------------------------------------------------------
(* calculateBMR, calculateExerciseAdjustment, macros *)

\* Math.round(n / d) for integers n and d > 0: the nearest integer, a half
\* going up (towards +Infinity)
\* variant of MathRound: the fraction is cut off
MathTrunc(n, d) == n \div d

MathRound(n, d) == (2 * n + d) \div (2 * d)

\* 10 * weight + 6.25 * height - 5 * age + 5 (male) or - 161 (any other
\* sex), rounded; the sum is a multiple of 0.25 and is held in quarters.
calculateBMR(weight, height, age, sex) ==
    IF IsNum(ToNumber(weight)) /\ IsNum(ToNumber(height)) /\ IsNum(ToNumber(age))
    THEN LET w == ToNumber(weight).val
             h == ToNumber(height).val
             a == ToNumber(age).val
         IN  IF sex = "male"
             THEN Num(MathRound(40 * w + 25 * h - 20 * a + 20, 4))
             ELSE Num(MathRound(40 * w + 25 * h - 20 * a - 644, 4))
    ELSE NaN

calculateExerciseAdjustment(time, multiplier) ==
    IF IsNum(ToNumber(time)) /\ IsNum(ToNumber(multiplier))
    THEN Num(MathRound(ToNumber(time).val * ToNumber(multiplier).val, 1))
    ELSE NaN

\* Math.round((goal * share) / calPerGram) with share = 1 / shareDivisor:
\* goal * 0.5 and goal * 0.25 are exact in binary64, and the correctly
\* rounded quotient lies on the same side of every half as the exact one.
macroGrams(goal, shareDivisor, calPerGram) ==
    IF IsNum(ToNumber(goal))
    THEN Num(MathRound(ToNumber(goal).val, shareDivisor * calPerGram))
    ELSE NaN

gramsCarbs(goal) == macroGrams(goal, 2, CAL_PER_GRAM_CARBS)
gramsProtein(goal) == macroGrams(goal, 4, CAL_PER_GRAM_PROTEIN)
\* variant of gramsFat: fat is counted at the 4 kcal per gram of the others
gramsFatAtFour(goal) == macroGrams(goal, 4, CAL_PER_GRAM_CARBS)

gramsFat(goal) == macroGrams(goal, 4, CAL_PER_GRAM_FAT)

\* step 6 of handleCalorieGoal: the timeline message
timeMessage(currentWeight, goalWeight, weeklyLossRate) ==
    LET weightDifference == JsSub(currentWeight, goalWeight)
    IN  IF JsLeqZero(weightDifference)
        THEN [kind |-> "reached", goalWeight |-> ToText(goalWeight)]
        ELSE [kind |-> "weeks",
              weeks |-> IF IsNum(weightDifference)
                        THEN ToText(ceilOfQuotient(weightDifference.val, weeklyLossRate))
                        ELSE ToText(NaN)]

----------------------------------------------------------------------------
(* JSON and localStorage *)

\* the item is not in localStorage: getItem returns null
NoItem == <<"<", "n", "o", "n", "e", ">">>

NullText == <<"n", "u", "l", "l">>

\* JSON.stringify of a number: NaN is written as null
StringifyNumber(v) == IF IsNum(v) THEN ToText(v) ELSE NullText

\* JSON.parse of a number text
ParseNumber(text) == IF text = NullText THEN Null ELSE parseInt(text)

\* JSON string literal of a text: quoted, with quote and backslash escaped
RECURSIVE Escape(_)
Escape(s) ==
    IF Len(s) = 0 THEN <<>>
    ELSE (IF Head(s) \in {"\"", "\\"} THEN <<"\\", Head(s)>> ELSE <<Head(s)>>)
         \o Escape(Tail(s))

\* variant of Unescape: the backslashes stay in the text
UnescapeNone(s) == s

RECURSIVE Unescape(_)
Unescape(s) ==
    IF Len(s) = 0 THEN <<>>
    ELSE IF Head(s) = "\\" /\ Len(s) > 1 THEN <<s[2]>> \o Unescape(SubSeq(s, 3, Len(s)))
    ELSE <<Head(s)>> \o Unescape(Tail(s))

StringifyString(s) == <<"\"">> \o Escape(s) \o <<"\"">>

ParseString(text) == Unescape(SubSeq(text, 2, Len(text) - 1))

\* JSON.stringify of the food log: an array of {"name":...,"calories":...}
\* objects; the array is kept as the sequence of its members' texts.
StringifyLog(log) ==
    [i \in 1..Len(log) |->
        [name |-> StringifyString(log[i].name),
         calories |-> StringifyNumber(log[i].calories)]]

ParseLog(stored) ==
    [i \in 1..Len(stored) |->
        [name |-> ParseString(stored[i].name),
         calories |-> ParseNumber(stored[i].calories)]]

\* getFromLocalStorage(GOAL_KEY, 0)
getGoal(storage) ==
    IF storage[GOAL_KEY] = NoItem THEN Num(0) ELSE ParseNumber(storage[GOAL_KEY])

\* getFromLocalStorage(FOOD_LOG_KEY, [])
getLog(storage) ==
    IF storage[FOOD_LOG_KEY] = NoItem THEN <<>> ELSE ParseLog(storage[FOOD_LOG_KEY])

\* variant of saveGoal: the storage is cleared before the goal is written
saveGoalCleared(storage, value) ==
    [k \in DOMAIN storage |-> IF k = GOAL_KEY THEN StringifyNumber(value) ELSE NoItem]

\* saveToLocalStorage(GOAL_KEY, value)
saveGoal(storage, value) == [storage EXCEPT ![GOAL_KEY] = StringifyNumber(value)]

\* saveToLocalStorage(FOOD_LOG_KEY, log)
saveLog(storage, log) == [storage EXCEPT ![FOOD_LOG_KEY] = StringifyLog(log)]

----------------------------------------------------------------------------
(* renderLogAndSummary *)

\* totalConsumed after the forEach: the calories added up in list order
RECURSIVE totalConsumed(_)
totalConsumed(log) ==
    IF Len(log) = 0 THEN Num(0)
    ELSE JsAdd(totalConsumed(SubSeq(log, 1, Len(log) - 1)), log[Len(log)].calories)

\* variant of renderRows: the data-index counts the rows from 1
renderRowsFromOne(log) ==
    [i \in 1..Len(log) |->
        [name |-> log[i].name,
         calories |-> ToText(log[i].calories),
         index |-> ToText(Num(i))]]

\* the <li> rows: name, calories and the delete button's data-index
renderRows(log) ==
    [i \in 1..Len(log) |->
        [name |-> log[i].name,
         calories |-> ToText(log[i].calories),
         index |-> ToText(Num(i - 1))]]

\* variant of renderLogAndSummary: remaining is goal + totalConsumed
renderLogAndSummaryAdds(log, goal) ==
    /\ foodLogList' = renderRows(log)
    /\ consumedCaloriesSpan' = ToText(totalConsumed(log))
    /\ remainingCaloriesSpan' = ToText(JsAdd(goal, totalConsumed(log)))

renderLogAndSummary(log, goal) ==
    /\ foodLogList' = renderRows(log)
    /\ consumedCaloriesSpan' = ToText(totalConsumed(log))
    /\ remainingCaloriesSpan' = ToText(JsSub(goal, totalConsumed(log)))

----------------------------------------------------------------------------
(* Array.prototype.push and Array.prototype.splice(start, 1) *)

\* variant of push: the item goes to the front
unshift(log, item) == <<item>> \o log

push(log, item) == Append(log, item)

\* ToIntegerOrInfinity of the start argument: NaN becomes 0
ToInteger(v) == IF IsNum(ToNumber(v)) THEN ToNumber(v).val ELSE 0

Max(a, b) == IF a > b THEN a ELSE b
Min(a, b) == IF a < b THEN a ELSE b

\* the 0-based position splice starts at: a negative start counts from the
\* end, and the position is clamped to 0..length
spliceStart(len, start) ==
    IF ToInteger(start) < 0 THEN Max(len + ToInteger(start), 0)
    ELSE Min(ToInteger(start), len)

\* variant of splice1: splice(start), which removes everything from start on
spliceRest(log, start) == SubSeq(log, 1, spliceStart(Len(log), start))

\* the array after splice(start, 1)
splice1(log, start) ==
    LET from == spliceStart(Len(log), start)
        count == Min(1, Len(log) - from)
    IN  SubSeq(log, 1, from) \o SubSeq(log, from + count + 1, Len(log))

----------------------------------------------------------------------------
(* Inputs *)

\* what the page's markup holds in an element script.js has not written yet
Markup == <<"-", "-">>
TimelineMarkup == [kind |-> "markup"]

NoDialog == [kind |-> "none"]
ValidationAlert == [kind |-> "alert", message |-> "Please enter a valid food name and calorie amount."]

\* values typed into #food-name and #food-calories when the food form is
\* submitted: two entries that pass the check (one with blanks to trim, one
\* with a fraction that parseInt drops) and one input for each way to fail it
FoodInputs ==
    {<<<<" ", "a">>, <<"9", "5">>>>,
     <<<<"\"", " ">>, <<"1", "2", "0", ".", "4">>>>,
     <<<<>>, <<"9", "5">>>>,
     <<<<" ">>, <<"9", "5">>>>,
     <<<<" ", "a">>, <<>>>>,
     <<<<" ", "a">>, <<"0">>>>,
     <<<<" ", "a">>, <<"-", "5">>>>,
     <<<<" ", "a">>, <<"k">>>>}

\* data-index values a click on #food-log can carry
DeleteIndexes ==
    {ToText(Num(i)) : i \in 0..MaxLog} \cup {<<"-", "1">>, <<"x">>}

\* a filled-in #calorie-form; its fields are the page's number inputs and
\* its two selects, so every text below is a decimal number, with or without
\* a fraction, zero and negative included
Form(weight, height, age, sex, time, level, goalWeight, rate) ==
    [weight |-> weight, height |-> height, age |-> age, sex |-> sex,
     trainingTime |-> time, trainingLevel |-> level,
     goalWeight |-> goalWeight, weeklyLossRate |-> rate]

\* weight, height, age, sex
Biometrics ==
    {<<<<"8", "0">>, <<"1", "8", "0">>, <<"3", "0">>, "male">>,
     <<<<"8", "0">>, <<"1", "8", "0">>, <<"3", "0">>, "female">>,
     <<<<"9", "6">>, <<"1", "8", "0">>, <<"3", "0">>, "male">>,
     <<<<"8", "0", ".", "5">>, <<"1", "8", "0">>, <<"3", "0">>, "male">>,
     <<<<"7", "0">>, <<"1", "6", "5">>, <<"2", "5">>, "female">>,
     <<<<"2", "0">>, <<"5", "0">>, <<"9", "0">>, "female">>}

\* training time, training level
Activities ==
    {<<<<"0">>, <<"5">>>>, <<<<"3", "0">>, <<"8">>>>, <<<<"2", "2">>, <<"1", "0">>>>}

\* goal weight, weekly loss rate
Timelines ==
    {<<<<"7", "5">>, <<"0", ".", "5">>>>,
     <<<<"7", "5">>, <<"0", ".", "7">>>>,
     <<<<"7", "5">>, <<"1">>>>,
     <<<<"8", "0">>, <<"0", ".", "5">>>>,
     <<<<"7", "5">>, <<"0">>>>,
     <<<<"7", "5">>, <<"-", "0", ".", "5">>>>}

\* every form the goal calculator is checked on
AllForms ==
    {Form(b[1], b[2], b[3], b[4], a[1], a[2], t[1], t[2]) :
        b \in Biometrics, a \in Activities, t \in Timelines}

\* the forms submitted while a food log is kept
Forms ==
    {Form(<<"8", "0">>, <<"1", "8", "0">>, <<"3", "0">>, "male",
          <<"2", "2">>, <<"1", "0">>, <<"7", "5">>, <<"0", ".", "5">>),
     Form(<<"2", "0">>, <<"5", "0">>, <<"9", "0">>, "female",
          <<"0">>, <<"5">>, <<"7", "5">>, <<"0", ".", "5">>),
     \* BMR 0 and no exercise: the goal stored is 0
     Form(<<"0">>, <<"0">>, <<"1">>, "male",
          <<"0">>, <<"5">>, <<"0">>, <<"0", ".", "5">>)}

\* the form submitted while the storage refuses the write: goal 2000,
\* 10 weeks
QuotaForms ==
    {Form(<<"8", "0">>, <<"1", "8", "0">>, <<"3", "0">>, "male",
          <<"2", "2">>, <<"1", "0">>, <<"7", "5">>, <<"0", ".", "5">>)}

\* forms whose goals, 1780 + 5 * training time, run through every remainder
\* of 8, 16 and 36, and forms whose goals, 0 + 5 * training time, are the
\* smallest ones; the goal weight is the current weight
MacroForms ==
    {Form(<<"8", "0">>, <<"1", "8", "0">>, <<"3", "0">>, "male",
          ToText(Num(t)), <<"5">>, <<"8", "0">>, <<"0", ".", "5">>) :
        t \in 0..MaxTrainingTime}
    \cup
    {Form(<<"0">>, <<"0">>, <<"1">>, "male",
          ToText(Num(t)), <<"5">>, <<"0">>, <<"0", ".", "5">>) :
        t \in 0..(MaxTrainingTime \div 8)}

----------------------------------------------------------------------------
(* Handlers *)

initializeApp ==
    LET dailyGoal == getGoal(localStorage)
        foodLog == getLog(localStorage)
    IN  /\ dailyGoalSpan' = ToText(dailyGoal)
        /\ renderLogAndSummary(foodLog, dailyGoal)
        \* a page load starts from the markup
        /\ timelineOutput' = TimelineMarkup
        /\ targetProteinSpan' = Markup
        /\ targetCarbsSpan' = Markup
        /\ targetFatSpan' = Markup
        /\ dialog' = NoDialog
        /\ ev' = [handler |-> "initializeApp"]
        /\ UNCHANGED localStorage

\* steps 1 to 3 of handleCalorieGoal: the form is read, and the goal is
\* BMR + exercise adjustment
bmrOf(form) ==
    calculateBMR(parseInt(form.weight), parseInt(form.height), parseInt(form.age), form.sex)

exerciseAdjustmentOf(form) ==
    calculateExerciseAdjustment(parseInt(form.trainingTime), parseInt(form.trainingLevel))

\* variant of finalDailyGoalOf: the daily deficit of the wanted weekly loss
\* is taken off the goal
finalDailyGoalLessDeficit(form) ==
    LET rate == parseFloat(form.weeklyLossRate)
    IN  IF rate = NaN THEN NaN
        ELSE JsSub(JsAdd(bmrOf(form), exerciseAdjustmentOf(form)),
                   Num(MathRound(rate.num * CALORIES_PER_KG_FAT, rate.den * 7)))

finalDailyGoalOf(form) == JsAdd(bmrOf(form), exerciseAdjustmentOf(form))

handleCalorieGoal(form) ==
    LET currentWeight == parseInt(form.weight)
        goalWeight == parseInt(form.goalWeight)
        weeklyLossRate == parseFloat(form.weeklyLossRate)
        bmr == bmrOf(form)
        exerciseAdjustment == exerciseAdjustmentOf(form)
        finalDailyGoal == finalDailyGoalOf(form)
        message == timeMessage(currentWeight, goalWeight, weeklyLossRate)
        stored == saveGoal(localStorage, finalDailyGoal)
    IN  /\ ev' = [handler |-> "handleCalorieGoal", form |-> form]
        /\ dailyGoalSpan' = ToText(finalDailyGoal)
        /\ timelineOutput' = message
        /\ localStorage' = stored
        /\ targetProteinSpan' = ToText(gramsProtein(finalDailyGoal))
        /\ targetCarbsSpan' = ToText(gramsCarbs(finalDailyGoal))
        /\ targetFatSpan' = ToText(gramsFat(finalDailyGoal))
        /\ renderLogAndSummary(getLog(stored), finalDailyGoal)
        /\ dialog' = [kind |-> "alert",
                      goal |-> ToText(finalDailyGoal),
                      bmr |-> ToText(bmr),
                      exercise |-> ToText(exerciseAdjustment),
                      protein |-> ToText(gramsProtein(finalDailyGoal)),
                      carbs |-> ToText(gramsCarbs(finalDailyGoal)),
                      fat |-> ToText(gramsFat(finalDailyGoal)),
                      timeline |-> message]

handleFoodLog(nameText, caloriesText) ==
    LET name == trim(nameText)
        calories == parseInt(caloriesText)
    IN  /\ ev' = [handler |-> "handleFoodLog", name |-> nameText, calories |-> caloriesText]
        /\ IF Len(name) > 0 /\ JsGtZero(calories)
           THEN LET foodLog == push(getLog(localStorage), [name |-> name, calories |-> calories])
                    stored == saveLog(localStorage, foodLog)
                IN  /\ Len(foodLog) <= MaxLog
                    /\ localStorage' = stored
                    /\ renderLogAndSummary(foodLog, getGoal(stored))
                    /\ dialog' = NoDialog
                    /\ UNCHANGED <<dailyGoalSpan, timelineOutput, targetProteinSpan,
                                   targetCarbsSpan, targetFatSpan>>
           ELSE /\ dialog' = ValidationAlert
                /\ UNCHANGED <<localStorage, display>>

handleDeleteFood(isDeleteBtn, indexText) ==
    /\ ev' = [handler |-> "handleDeleteFood", isDeleteBtn |-> isDeleteBtn, index |-> indexText]
    /\ dialog' = NoDialog
    /\ IF isDeleteBtn
       THEN LET indexToDelete == parseInt(indexText)
                foodLog == splice1(getLog(localStorage), indexToDelete)
                stored == saveLog(localStorage, foodLog)
            IN  /\ localStorage' = stored
                /\ renderLogAndSummary(foodLog, getGoal(stored))
                /\ UNCHANGED <<dailyGoalSpan, timelineOutput, targetProteinSpan,
                               targetCarbsSpan, targetFatSpan>>
       ELSE UNCHANGED <<localStorage, display>>

\* variant of handleResetDay: the answer to confirm() is not looked at
handleResetDayUnasked(confirmed) ==
    /\ ev' = [handler |-> "handleResetDay", confirmed |-> confirmed]
    /\ dialog' = NoDialog
    /\ localStorage' = saveLog(localStorage, <<>>)
    /\ renderLogAndSummary(<<>>, getGoal(localStorage))
    /\ UNCHANGED <<dailyGoalSpan, timelineOutput, targetProteinSpan,
                   targetCarbsSpan, targetFatSpan>>

handleResetDay(confirmed) ==
    /\ ev' = [handler |-> "handleResetDay", confirmed |-> confirmed]
    /\ dialog' = NoDialog
    /\ IF confirmed
       THEN LET stored == saveLog(localStorage, <<>>)
            IN  /\ localStorage' = stored
                /\ renderLogAndSummary(<<>>, getGoal(stored))
                /\ UNCHANGED <<dailyGoalSpan, timelineOutput, targetProteinSpan,
                               targetCarbsSpan, targetFatSpan>>
       ELSE UNCHANGED <<localStorage, display>>

----------------------------------------------------------------------------
(* Handlers when localStorage.setItem throws: saveToLocalStorage has no
   try/catch and neither has any handler, so the exception leaves the
   handler at the call and the statements after it are not run *)

\* lines 192 and 193 have run, line 194 throws
handleCalorieGoalSetItemThrows(form) ==
    LET currentWeight == parseInt(form.weight)
        goalWeight == parseInt(form.goalWeight)
        weeklyLossRate == parseFloat(form.weeklyLossRate)
        finalDailyGoal == finalDailyGoalOf(form)
        message == timeMessage(currentWeight, goalWeight, weeklyLossRate)
    IN  /\ ev' = [handler |-> "handleCalorieGoal", form |-> form, threw |-> TRUE]
        /\ dailyGoalSpan' = ToText(finalDailyGoal)
        /\ timelineOutput' = message
        /\ dialog' = NoDialog
        /\ UNCHANGED <<localStorage, targetProteinSpan, targetCarbsSpan, targetFatSpan,
                       foodLogList, consumedCaloriesSpan, remainingCaloriesSpan>>

\* line 234 throws; it is reached with a valid entry only
handleFoodLogSetItemThrows(nameText, caloriesText) ==
    LET name == trim(nameText)
        calories == parseInt(caloriesText)
    IN  /\ Len(name) > 0 /\ JsGtZero(calories)
        /\ ev' = [handler |-> "handleFoodLog", name |-> nameText,
                  calories |-> caloriesText, threw |-> TRUE]
        /\ dialog' = NoDialog
        /\ UNCHANGED <<localStorage, display>>

\* line 261 throws; it is reached by a click on a delete button only
handleDeleteFoodSetItemThrows(indexText) ==
    /\ ev' = [handler |-> "handleDeleteFood", isDeleteBtn |-> TRUE,
              index |-> indexText, threw |-> TRUE]
    /\ dialog' = NoDialog
    /\ UNCHANGED <<localStorage, display>>

\* line 274 throws; it is reached after a confirmed reset only
handleResetDaySetItemThrows ==
    /\ ev' = [handler |-> "handleResetDay", confirmed |-> TRUE, threw |-> TRUE]
    /\ dialog' = NoDialog
    /\ UNCHANGED <<localStorage, display>>

----------------------------------------------------------------------------
(* Specification *)

\* first page load, nothing stored yet
Init ==
    /\ localStorage = [k \in {GOAL_KEY, FOOD_LOG_KEY} |-> NoItem]
    /\ dailyGoalSpan = ToText(Num(0))
    /\ consumedCaloriesSpan = ToText(Num(0))
    /\ remainingCaloriesSpan = ToText(Num(0))
    /\ foodLogList = <<>>
    /\ timelineOutput = TimelineMarkup
    /\ targetProteinSpan = Markup
    /\ targetCarbsSpan = Markup
    /\ targetFatSpan = Markup
    /\ dialog = NoDialog
    /\ ev = [handler |-> "initializeApp"]

CalorieFormSubmit == \E f \in Forms : handleCalorieGoal(f)

CalorieFormSubmitAny == \E f \in AllForms : handleCalorieGoal(f)

CalorieFormSubmitMacro == \E f \in MacroForms : handleCalorieGoal(f)

FoodLogSubmit == \E f \in FoodInputs : handleFoodLog(f[1], f[2])

FoodLogClick ==
    \/ \E i \in DeleteIndexes : handleDeleteFood(TRUE, i)
    \/ handleDeleteFood(FALSE, <<>>)

ResetClick == \E c \in BOOLEAN : handleResetDay(c)

Next ==
    \/ initializeApp
    \/ CalorieFormSubmit
    \/ FoodLogSubmit
    \/ FoodLogClick
    \/ ResetClick

Spec == Init /\ [][Next]_vars

\* the goal calculator alone, over every form of AllForms
NextGoal ==
    \/ CalorieFormSubmitAny
    \/ initializeApp

SpecGoal == Init /\ [][NextGoal]_vars

\* every handler, with and without a storage that refuses the write
CalorieFormSubmitThrows == \E f \in QuotaForms : handleCalorieGoalSetItemThrows(f)

FoodLogSubmitThrows == \E f \in FoodInputs : handleFoodLogSetItemThrows(f[1], f[2])

FoodLogClickThrows == \E i \in DeleteIndexes : handleDeleteFoodSetItemThrows(i)

ResetClickThrows == handleResetDaySetItemThrows

NextQuota ==
    \/ Next
    \/ CalorieFormSubmitThrows
    \/ FoodLogSubmitThrows
    \/ FoodLogClickThrows
    \/ ResetClickThrows

SpecQuota == Init /\ [][NextQuota]_vars

\* the macro allocation alone, over every form of MacroForms
NextMacro == CalorieFormSubmitMacro

SpecMacro == Init /\ [][NextMacro]_vars

----------------------------------------------------------------------------
(* Properties *)

\* the persisted values, as a reload would read them
FoodLog == getLog(localStorage)
DailyGoal == getGoal(localStorage)

RECURSIVE SumCalories(_)
SumCalories(log) ==
    IF Len(log) = 0 THEN 0 ELSE Head(log).calories.val + SumCalories(Tail(log))

WhitespaceOnly(text) == \A i \in 1..Len(text) : text[i] = " "

\* the add event e carries an empty or blank name, or calories that are
\* not a number or not above zero
InvalidEntry(e) ==
    \/ WhitespaceOnly(e.name)
    \/ parseInt(e.calories) = NaN
    \/ parseInt(e.calories).val <= 0

\* the delete event e carries a position of log
InBounds(e, log) ==
    /\ parseInt(e.index) # NaN
    /\ parseInt(e.index).val >= 0
    /\ parseInt(e.index).val < Len(log)

\* log without its entry at 0-based position i
RemoveAt(log, i) ==
    [j \in 1..(Len(log) - 1) |-> IF j <= i THEN log[j] ELSE log[j + 1]]

\* C1: after every handler the displayed consumed is the sum of the calories
\* of the persisted food log and the displayed remaining is the persisted
\* daily goal minus that sum, negative or not.
C1_TotalsMatchLog ==
    /\ consumedCaloriesSpan = ToText(Num(SumCalories(FoodLog)))
    /\ remainingCaloriesSpan = ToText(Num(DailyGoal.val - SumCalories(FoodLog)))

\* goal 2000, entries of 95 and 120 added: consumed 215, remaining 1785
C1_Witness ==
    /\ ev.handler = "handleFoodLog"
    /\ DailyGoal = Num(2000)
    /\ Len(FoodLog) = 2
    /\ FoodLog[1].calories = Num(95)
    /\ FoodLog[2].calories = Num(120)
    /\ consumedCaloriesSpan = <<"2", "1", "5">>
    /\ remainingCaloriesSpan = <<"1", "7", "8", "5">>

\* C2: an add event with a blank name or with calories that are not a
\* positive number changes neither the stored items nor anything displayed;
\* it only raises the validation message.
C2_InvalidAddChangesNothing ==
    [][ev'.handler = "handleFoodLog" /\ InvalidEntry(ev')
        => /\ localStorage' = localStorage
           /\ display' = display
           /\ dialog' = ValidationAlert]_vars

C2_Witness ==
    /\ ev.handler = "handleFoodLog"
    /\ InvalidEntry(ev)
    /\ dialog = ValidationAlert
    /\ Len(FoodLog) > 0

\* C3: a delete event with an index inside 0..len-1 removes exactly that
\* position: earlier entries stay, later entries move back by one, and the
\* summary shown is that of the remaining entries.
C3_DeleteRemovesThatEntry ==
    [][ev'.handler = "handleDeleteFood" /\ ev'.isDeleteBtn /\ InBounds(ev', FoodLog)
        => LET rest == RemoveAt(FoodLog, parseInt(ev'.index).val)
           IN  /\ FoodLog' = rest
               /\ Len(rest) = Len(FoodLog) - 1
               /\ consumedCaloriesSpan' = ToText(Num(SumCalories(rest)))
               /\ remainingCaloriesSpan' = ToText(Num(DailyGoal'.val - SumCalories(rest)))]_vars

\* the first of two entries was deleted
C3_Witness ==
    /\ ev.handler = "handleDeleteFood"
    /\ ev.isDeleteBtn
    /\ parseInt(ev.index) = Num(0)
    /\ Len(FoodLog) = 1
    /\ Len(foodLogList) = 1

\* C4: a delete event with an index outside the log (negative, at or past
\* the length, or not a number) leaves the persisted log as it was.
C4_OutOfBoundsDeleteIsNoOp ==
    [][ev'.handler = "handleDeleteFood" /\ ev'.isDeleteBtn /\ ~InBounds(ev', FoodLog)
        => FoodLog' = FoodLog]_vars

\* C5: a reset answered no changes neither the persisted log nor the
\* display; a reset answered yes empties the persisted log, shows consumed 0
\* and remaining equal to the persisted goal, and keeps the goal.
C5_ResetHonoursConfirmation ==
    [][ev'.handler = "handleResetDay"
        => IF ev'.confirmed
           THEN /\ FoodLog' = <<>>
                /\ consumedCaloriesSpan' = ToText(Num(0))
                /\ remainingCaloriesSpan' = ToText(DailyGoal')
                /\ DailyGoal' = DailyGoal
           ELSE /\ localStorage' = localStorage
                /\ display' = display]_vars

C5_Witness ==
    /\ ev.handler = "handleResetDay"
    /\ ev.confirmed
    /\ FoodLog = <<>>
    /\ foodLogList = <<>>
    /\ DailyGoal = Num(2000)
    /\ remainingCaloriesSpan = <<"2", "0", "0", "0">>

\* the form's fields as the decimal numbers typed: num / den, negated if neg
Typed(text) == parseFloat(text)

Positive(text) == Typed(text) # NaN /\ ~Typed(text).neg /\ Typed(text).num > 0

\* weight > 0, height > 0, age a positive integer, sex male or female,
\* duration >= 0, multiplier 5, 8 or 10
ValidGoalInputs(f) ==
    /\ Positive(f.weight)
    /\ Positive(f.height)
    /\ Positive(f.age) /\ Typed(f.age).den = 1
    /\ f.sex \in {"male", "female"}
    /\ Typed(f.trainingTime) # NaN
    /\ (Typed(f.trainingTime).neg => Typed(f.trainingTime).num = 0)
    /\ parseInt(f.trainingLevel) \in {Num(5), Num(8), Num(10)}

\* C6: after a goal-setting event with valid inputs the persisted daily goal
\* is a non-negative integer.
C6_GoalNonNegative ==
    ev.handler = "handleCalorieGoal" /\ ValidGoalInputs(ev.form)
        => DailyGoal # NaN /\ DailyGoal # Null /\ DailyGoal.val >= 0

\* C7: every entry of the persisted food log has a non-empty name and
\* calories above zero.
C7_EntriesAreValid ==
    \A i \in 1..Len(FoodLog) :
        /\ Len(FoodLog[i].name) > 0
        /\ FoodLog[i].calories # NaN
        /\ FoodLog[i].calories # Null
        /\ FoodLog[i].calories.val > 0

\* two entries are stored and an entry of 0 calories has just been refused
C7_Witness ==
    /\ Len(FoodLog) >= 2
    /\ ev.handler = "handleFoodLog"
    /\ ~WhitespaceOnly(ev.name)
    /\ parseInt(ev.calories) = Num(0)

\* C8: a successful add event appends the new entry as the last element:
\* the log grows by one and every earlier entry keeps position and contents.
C8_AddAppendsLast ==
    [][ev'.handler = "handleFoodLog" /\ ~InvalidEntry(ev')
        => /\ Len(FoodLog') = Len(FoodLog) + 1
           /\ SubSeq(FoodLog', 1, Len(FoodLog)) = FoodLog
           /\ FoodLog'[Len(FoodLog')] =
                  [name |-> trim(ev'.name), calories |-> parseInt(ev'.calories)]]_vars

\* a second, different entry was added behind the first
C8_Witness ==
    /\ ev.handler = "handleFoodLog"
    /\ ~InvalidEntry(ev)
    /\ Len(FoodLog) = 2
    /\ FoodLog[1] # FoodLog[2]
    /\ FoodLog[2] = [name |-> trim(ev.name), calories |-> parseInt(ev.calories)]

\* C9: for a goal-setting event with weeklyRate > 0, the timeline is the
\* "already reached" variant carrying the target weight when
\* currentWeight - targetWeight <= 0, and otherwise N weeks for the least
\* integer N with N * weeklyRate >= currentWeight - targetWeight.
\* The three numbers are compared as exact fractions.
C9_TimelineIsCeiling ==
    ev.handler = "handleCalorieGoal" /\ Positive(ev.form.weeklyLossRate)
        => LET cw == Typed(ev.form.weight)
               tw == Typed(ev.form.goalWeight)
               rate == Typed(ev.form.weeklyLossRate)
               \* (currentWeight - targetWeight) is diff / (cw.den * tw.den)
               diff == cw.num * tw.den - tw.num * cw.den
               \* n * weeklyRate >= currentWeight - targetWeight
               Covers(n) == n * rate.num * cw.den * tw.den >= diff * rate.den
           IN  IF diff <= 0
               THEN /\ timelineOutput.kind = "reached"
                    /\ timelineOutput.goalWeight = ev.form.goalWeight
               ELSE /\ timelineOutput.kind = "weeks"
                    /\ parseInt(timelineOutput.weeks) # NaN
                    /\ LET n == parseInt(timelineOutput.weeks).val
                       IN  n >= 1 /\ Covers(n) /\ ~Covers(n - 1)

SameButTimeline(f, g) ==
    \A k \in {"weight", "height", "age", "sex", "trainingTime", "trainingLevel"} :
        f[k] = g[k]

\* C10: the persisted and displayed daily goal after a goal-setting event is
\* calculateBMR + calculateExerciseAdjustment with nothing else applied, so
\* two goal-setting events that differ only in target weight and weekly
\* loss rate persist the same goal and display the same macro targets.
C10_GoalIgnoresTimeline ==
    [][ev'.handler = "handleCalorieGoal"
        => /\ DailyGoal' =
                  JsAdd(calculateBMR(parseInt(ev'.form.weight), parseInt(ev'.form.height),
                                     parseInt(ev'.form.age), ev'.form.sex),
                        calculateExerciseAdjustment(parseInt(ev'.form.trainingTime),
                                                    parseInt(ev'.form.trainingLevel)))
           /\ dailyGoalSpan' = ToText(DailyGoal')
           /\ (ev.handler = "handleCalorieGoal" /\ SameButTimeline(ev.form, ev'.form)
                  => /\ localStorage'[GOAL_KEY] = localStorage[GOAL_KEY]
                     /\ dailyGoalSpan' = dailyGoalSpan
                     /\ targetProteinSpan' = targetProteinSpan
                     /\ targetCarbsSpan' = targetCarbsSpan
                     /\ targetFatSpan' = targetFatSpan)]_vars

\* a goal of 2000 was set with a loss rate that gives a number of weeks
C10_Witness ==
    /\ ev.handler = "handleCalorieGoal"
    /\ Positive(ev.form.weeklyLossRate)
    /\ timelineOutput.kind = "weeks"
    /\ DailyGoal = Num(2000)
    /\ dailyGoalSpan = <<"2", "0", "0", "0">>

\* C11: after a goal-setting event that computed a non-negative goal g, the
\* macro targets on display are g/8 (carbohydrates), g/16 (protein) and g/36
\* (fat), each rounded to the nearest whole gram with halves rounded up; a
\* goal of 2000 shows protein 125, carbs 250, fat 56.
\* c is the round-half-up of g/d iff c - 1/2 <= g/d < c + 1/2.
IsHalfUpOf(c, g, d) == 2 * d * c - d <= 2 * g /\ 2 * g < 2 * d * c + d

HalfUp(g, d) == CHOOSE c \in 0..(g + 1) : IsHalfUpOf(c, g, d)

GoalEventDone == ev.handler = "handleCalorieGoal"

C11_MacrosRoundHalfUp ==
    (GoalEventDone /\ IsNum(DailyGoal) /\ DailyGoal.val >= 0) =>
        /\ targetCarbsSpan = NatText(HalfUp(DailyGoal.val, 8))
        /\ targetProteinSpan = NatText(HalfUp(DailyGoal.val, 16))
        /\ targetFatSpan = NatText(HalfUp(DailyGoal.val, 36))
        /\ (DailyGoal.val = 2000 =>
                /\ targetProteinSpan = <<"1", "2", "5">>
                /\ targetCarbsSpan = <<"2", "5", "0">>
                /\ targetFatSpan = <<"5", "6">>)

C11_Witness ==
    /\ GoalEventDone
    /\ DailyGoal = Num(2000)
    /\ targetProteinSpan = <<"1", "2", "5">>
    /\ targetCarbsSpan = <<"2", "5", "0">>
    /\ targetFatSpan = <<"5", "6">>

\* a goal whose sixteenth falls on a half gram: 1800 / 16 = 112.5
C11_WitnessHalf ==
    /\ GoalEventDone
    /\ DailyGoal = Num(1800)
    /\ targetProteinSpan = <<"1", "1", "3">>

\* C12: whenever the display shows a non-zero DailyGoal, the persisted one,
\* the macro targets shown with it are the ones allocated from that goal;
\* in particular after a reload that loaded a persisted non-zero goal.
ShowsPersistedGoal ==
    /\ DailyGoal # Num(0)
    /\ dailyGoalSpan = ToText(DailyGoal)

C12_MacrosMatchShownGoal ==
    ShowsPersistedGoal =>
        /\ targetProteinSpan = ToText(gramsProtein(DailyGoal))
        /\ targetCarbsSpan = ToText(gramsCarbs(DailyGoal))
        /\ targetFatSpan = ToText(gramsFat(DailyGoal))

\* the state the claim singles out: a reload has shown a persisted goal
C12_ReloadShowsGoal ==
    /\ ev.handler = "initializeApp"
    /\ ShowsPersistedGoal

\* C13: a handler whose storage write throws leaves the persisted values and
\* the whole display (daily goal, timeline, macro targets, list, consumed and
\* remaining) as they were before the event.
Threw(e) == "threw" \in DOMAIN e

C13_FailedSaveChangesNothing ==
    [][Threw(ev') => (localStorage' = localStorage /\ display' = display)]_vars

\* the same for the three food-log events alone
C13_FailedLogSaveChangesNothing ==
    [][(Threw(ev') /\ ev'.handler # "handleCalorieGoal") =>
            (localStorage' = localStorage /\ display' = display)]_vars

C13_FailedLogSaveSeen ==
    /\ Threw(ev)
    /\ ev.handler = "handleDeleteFood"
    /\ Len(FoodLog) = 2

\* C14: a reload, reading both storage keys, changes neither key and shows
\* the daily goal, the food list (names, calories, order) and the consumed
\* and remaining values that were on display before it, after any sequence
\* of goal, add, delete and reset events.
ReloadDone == ev.handler = "initializeApp"

C14_ReloadRoundTrip ==
    [][ev'.handler = "initializeApp" =>
            /\ localStorage' = localStorage
            /\ dailyGoalSpan' = dailyGoalSpan
            /\ foodLogList' = foodLogList
            /\ consumedCaloriesSpan' = consumedCaloriesSpan
            /\ remainingCaloriesSpan' = remainingCaloriesSpan]_vars

\* a reload of a stored goal and a stored log of two entries, one of them
\* with a name that JSON has to escape
C14_Witness ==
    /\ ReloadDone
    /\ DailyGoal = Num(2000)
    /\ dailyGoalSpan = ToText(Num(2000))
    /\ Len(foodLogList) = 2
    /\ \E i \in 1..2 : foodLogList[i].name = <<"\"">>
    /\ \E i \in 1..2 : foodLogList[i].name = <<"a">>

\* a reload of a stored goal of 0 and a stored empty log
C14_WitnessZero ==
    /\ ReloadDone
    /\ localStorage[GOAL_KEY] = <<"0">>
    /\ localStorage[FOOD_LOG_KEY] = <<>>
    /\ dailyGoalSpan = <<"0">>
    /\ foodLogList = <<>>

\* C15: after a goal-setting event that computed a non-negative goal g, the
\* calories of the macro targets on display, 4 per gram of carbohydrate,
\* 4 per gram of protein and 9 per gram of fat, are within 8 kcal of g.
Shown(span) == parseInt(span).val

MacroCalories ==
    4 * Shown(targetCarbsSpan) + 4 * Shown(targetProteinSpan) + 9 * Shown(targetFatSpan)

C15_MacroCaloriesNearGoal ==
    (GoalEventDone /\ IsNum(DailyGoal) /\ DailyGoal.val >= 0) =>
        /\ MacroCalories - DailyGoal.val <= 8
        /\ DailyGoal.val - MacroCalories <= 8

\* the largest deviation there is: goal 1820 allocates 228 + 114 + 51 grams,
\* 1827 kcal
C15_Witness ==
    /\ GoalEventDone
    /\ DailyGoal = Num(1820)
    /\ MacroCalories = 1827

\* C16: after every handler the rendered list has one row per persisted
\* entry, in the same order, and the delete button of the row at 0-based
\* position k carries index k; so a delete click on a button of the rendered
\* list carries an in-bounds index and removes the entry shown in its row.
RowsMatchLog ==
    LET log == FoodLog
    IN  /\ Len(foodLogList) = Len(log)
        /\ \A i \in 1..Len(log) :
                /\ foodLogList[i].name = log[i].name
                /\ parseInt(foodLogList[i].calories) = log[i].calories
                /\ parseInt(foodLogList[i].index) = Num(i - 1)

\* the delete event e is a click on the button of row i of the list rows
ClickOnRow(e, rows, i) ==
    /\ e.handler = "handleDeleteFood"
    /\ e.isDeleteBtn
    /\ i \in 1..Len(rows)
    /\ e.index = rows[i].index

LogEvents == {"handleFoodLog", "handleDeleteFood", "handleResetDay"}

C17_GoalAndLogAreSeparate ==
    [][/\ ev'.handler = "handleCalorieGoal" =>
            /\ localStorage'[FOOD_LOG_KEY] = localStorage[FOOD_LOG_KEY]
            /\ FoodLog' = FoodLog
       /\ ev'.handler \in LogEvents =>
            /\ localStorage'[GOAL_KEY] = localStorage[GOAL_KEY]
            /\ DailyGoal' = DailyGoal]_vars

\* a goal was set over a stored log of two entries, which are still there
C17_Witness ==
    /\ GoalEventDone
    /\ DailyGoal = Num(2000)
    /\ Len(FoodLog) = 2
    /\ Len(foodLogList) = 2

\* an entry was deleted under a stored goal, which is still there
C17_WitnessLog ==
    /\ ev.handler = "handleDeleteFood"
    /\ ev.isDeleteBtn
    /\ localStorage[GOAL_KEY] = ToText(Num(2000))
    /\ Len(FoodLog) = 1

====
